---- MODULE Spec2Model ----
(***************************************************************************)
(* Jobly: the partial-update SET builder (helpers/sql.js), the WHERE       *)
(* builders of Company.findAll / Job.findAll and the Company / Job         *)
(* repositories over a relational store.                                   *)
(*                                                                         *)
(* JavaScript values are records [t, n, s] (type tag, number, string) so   *)
(* that values of different JavaScript types can be compared.  SQL text is *)
(* a sequence of lexemes [tok, s, n]; the store parses that sequence when  *)
(* it executes a statement.                                                *)
(***************************************************************************)
EXTENDS Integers, Sequences, FiniteSets, TLC

VARIABLES companies, jobs, nextId, call, ret, pre, queries, lastRemoved, procs

vars == <<companies, jobs, nextId, call, ret, pre, queries, lastRemoved, procs>>

(***************************************************************************)
(* Bounds of the model.                                                    *)
(***************************************************************************)
MaxKeys == 2        \* longest update payload drawn for the pure builder
MaxJobs == 2        \* most job rows ever inserted (caps the serial id)
MaxRows == 2        \* most company rows held by the store at once

(***************************************************************************)
(* JavaScript values.                                                      *)
(***************************************************************************)
Undefined == [t |-> "undefined", n |-> 0, s |-> ""]
Null == [t |-> "null", n |-> 0, s |-> ""]
Num(i) == [t |-> "number", n |-> i, s |-> ""]
Str(x) == [t |-> "string", n |-> 0, s |-> x]
Bool(b) == [t |-> "boolean", n |-> IF b THEN 1 ELSE 0, s |-> ""]
\* a built-in function object, s is its source text
Fn(x) == [t |-> "function", n |-> 0, s |-> x]

\* ToBoolean: what `if (v)` and `v || w` test
Truthy(v) ==
  CASE v.t = "undefined" -> FALSE
    [] v.t = "null" -> FALSE
    [] v.t = "number" -> v.n # 0
    [] v.t = "string" -> v.s # ""
    [] v.t = "boolean" -> v.n = 1
    [] OTHER -> TRUE

\* ToNumber of the operands the relational operators of findAll are given
\* (numbers and undefined): undefined converts to NaN, modelled by IsNaN
IsNaN(v) == v.t \notin {"number", "null", "boolean"}

ToNumber(v) == IF v.t = "null" THEN 0 ELSE v.n

\* a > b and a < b: false as soon as one operand converts to NaN
JsGt(a, b) == ~IsNaN(a) /\ ~IsNaN(b) /\ ToNumber(a) > ToNumber(b)

JsLt(a, b) == ~IsNaN(a) /\ ~IsNaN(b) /\ ToNumber(a) < ToNumber(b)

\* `${v}` : string conversion inside a template literal
TemplateStr(v) ==
  CASE v.t = "string" -> v.s
    [] v.t = "function" -> v.s
    [] v.t = "number" -> ToString(v.n)
    [] v.t = "boolean" -> (IF v.n = 1 THEN "true" ELSE "false")
    [] OTHER -> v.t

(***************************************************************************)
(* JavaScript objects: the sequence of their own entries [k, v] in         *)
(* insertion order, keys distinct.                                         *)
(***************************************************************************)
RECURSIVE SeqToSet(_)
SeqToSet(s) == IF s = <<>> THEN {} ELSE {Head(s)} \cup SeqToSet(Tail(s))

OwnKeys(obj) == {obj[i].k : i \in DOMAIN obj}

\* canonical array-index keys ("0", "1", ...) and their numeric value
IndexKeys == {"0", "1"}

IndexOf(k) == CASE k = "0" -> 0 [] k = "1" -> 1 [] OTHER -> -1

\* property names every plain object inherits from Object.prototype
ProtoKeys == {"toString"}

ProtoValue(k) == Fn("function toString() { [native code] }")

\* obj[k]: own property, else inherited property, else undefined
GetProp(obj, k) ==
  IF k \in OwnKeys(obj)
    THEN (CHOOSE e \in SeqToSet(obj) : e.k = k).v
    ELSE IF k \in ProtoKeys THEN ProtoValue(k) ELSE Undefined

\* positions of obj's entries in property enumeration order: array-index
\* keys first in ascending numeric order, then the other keys in insertion
\* order
RECURSIVE EnumOrder(_, _)
EnumOrder(obj, todo) ==
  IF todo = {} THEN <<>>
  ELSE LET idx == {i \in todo : obj[i].k \in IndexKeys}
           first == IF idx # {}
                      THEN CHOOSE i \in idx :
                             \A j \in idx : IndexOf(obj[i].k) <= IndexOf(obj[j].k)
                      ELSE CHOOSE i \in todo : \A j \in todo : i <= j
       IN <<first>> \o EnumOrder(obj, todo \ {first})

ObjectKeys(obj) ==
  LET ord == EnumOrder(obj, DOMAIN obj)
  IN [i \in DOMAIN ord |-> obj[ord[i]].k]

ObjectValues(obj) ==
  LET ord == EnumOrder(obj, DOMAIN obj)
  IN [i \in DOMAIN ord |-> obj[ord[i]].v]

(***************************************************************************)
(* SQL text as lexemes.                                                    *)
(***************************************************************************)
Ident(c) == [tok |-> "ident", s |-> c, n |-> 0]     \* "c" (quoted) or c
Op(o) == [tok |-> "op", s |-> o, n |-> 0]           \* =  >=  <=  >  ILIKE
Ph(i) == [tok |-> "ph", s |-> "$", n |-> i]         \* $i
Lit(i) == [tok |-> "lit", s |-> "", n |-> i]        \* numeric literal
Kw(w) == [tok |-> "kw", s |-> w, n |-> 0]           \* , AND WHERE

\* Array.prototype.join on an array of lexeme sequences
RECURSIVE Join(_, _)
Join(parts, sep) ==
  IF parts = <<>> THEN <<>>
  ELSE IF Len(parts) = 1 THEN parts[1]
  ELSE parts[1] \o <<sep>> \o Join(Tail(parts), sep)

(***************************************************************************)
(* helpers/sql.js                                                          *)
(***************************************************************************)
Threw(e) == [threw |-> e]

\* SetCol numbering the placeholders from the array index itself
SetCol_ZeroBased(jsToSql, colName, idx) ==
  LET m == GetProp(jsToSql, colName)
  IN <<Ident(IF Truthy(m) THEN TemplateStr(m) ELSE colName), Op("="), Ph(idx)>>

\* the template literal of the map callback, for key colName at index idx
SetCol(jsToSql, colName, idx) ==
  LET m == GetProp(jsToSql, colName)
  IN <<Ident(IF Truthy(m) THEN TemplateStr(m) ELSE colName), Op("="), Ph(idx + 1)>>

\* sqlForPartialUpdate without the check for an empty payload
sqlForPartialUpdate_NoEmptyCheck(dataToUpdate, jsToSql) ==
  LET keys == ObjectKeys(dataToUpdate)
      cols == [i \in DOMAIN keys |-> SetCol(jsToSql, keys[i], i - 1)]
  IN [threw |-> "",
      setCols |-> Join(cols, Kw(",")),
      values |-> ObjectValues(dataToUpdate)]

sqlForPartialUpdate(dataToUpdate, jsToSql) ==
  LET keys == ObjectKeys(dataToUpdate)
  IN IF Len(keys) = 0 THEN Threw("BadRequestError")
     ELSE LET cols == [i \in DOMAIN keys |-> SetCol(jsToSql, keys[i], i - 1)]
          IN [threw |-> "",
              setCols |-> Join(cols, Kw(",")),
              values |-> ObjectValues(dataToUpdate)]

(***************************************************************************)
(* The store.  A table is the sequence of its rows in insertion order; a   *)
(* row is a record over the table's column names.  db.query(text, params)  *)
(* is one Exec operator per statement; each returns the rows of the result *)
(* set and the table after the statement.                                  *)
(***************************************************************************)
Query(stmt, text, params) == [stmt |-> stmt, text |-> text, params |-> params]

\* the assignments of a SET list: every fourth lexeme is a comma
SetAssignments(setCols) ==
  [j \in 1..((Len(setCols) + 1) \div 4) |->
     [col |-> setCols[4 * j - 3].s, ph |-> setCols[4 * j - 1].n]]

\* a SET list the store accepts for a row with columns cols and a
\* parameter list params: known columns, each placeholder bound
SetWellFormed(setCols, cols, params) ==
  /\ Len(setCols) % 4 = 3
  /\ \A j \in 1..((Len(setCols) + 1) \div 4) :
       /\ setCols[4 * j - 3].tok = "ident"
       /\ setCols[4 * j - 3].s \in cols
       /\ setCols[4 * j - 1].tok = "ph"
       /\ setCols[4 * j - 1].n \in DOMAIN params

RECURSIVE ApplySet(_, _, _)
ApplySet(row, assigns, params) ==
  IF assigns = <<>> THEN row
  ELSE ApplySet([row EXCEPT ![Head(assigns).col] = params[Head(assigns).ph]],
                Tail(assigns), params)

\* UPDATE <table> SET <setCols> WHERE <keyCol> = $<whereIdx> RETURNING ...
ExecUpdate(table, cols, keyCol, setCols, whereIdx, params) ==
  IF ~SetWellFormed(setCols, cols, params) \/ whereIdx \notin DOMAIN params
    THEN [error |-> TRUE, rows |-> <<>>, table |-> table]
    ELSE LET hit(r) == r[keyCol] = params[whereIdx]
             upd(r) == IF hit(r)
                         THEN ApplySet(r, SetAssignments(setCols), params)
                         ELSE r
             after == [i \in DOMAIN table |-> upd(table[i])]
         IN [error |-> FALSE,
             rows |-> [i \in DOMAIN SelectSeq(table, hit) |->
                         upd(SelectSeq(table, hit)[i])],
             table |-> after]

\* DELETE FROM <table> WHERE <keyCol> = $1 RETURNING <keyCol>
ExecDelete(table, keyCol, params) ==
  LET hit(r) == r[keyCol] = params[1]
      keep(r) == ~hit(r)
  IN [rows |-> SelectSeq(table, hit), table |-> SelectSeq(table, keep)]

\* SELECT ... FROM <table> WHERE <keyCol> = $1
ExecSelectBy(table, keyCol, params) ==
  LET hit(r) == r[keyCol] = params[1]
  IN SelectSeq(table, hit)

CompanyCols == {"handle", "name", "description", "num_employees", "logo_url"}

JobCols == {"id", "title", "salary", "equity", "company_handle"}

\* RETURNING handle, name, description, num_employees AS "numEmployees",
\* logo_url AS "logoUrl"
CompanyOut(r) ==
  [handle |-> r.handle, name |-> r.name, description |-> r.description,
   numEmployees |-> r.num_employees, logoUrl |-> r.logo_url]

\* RETURNING id, title, salary, equity, company_handle AS "companyHandle"
JobOut(r) ==
  [id |-> r.id, title |-> r.title, salary |-> r.salary, equity |-> r.equity,
   companyHandle |-> r.company_handle]

\* INSERT INTO companies (...) VALUES ($1, $2, $3, $4, $5) RETURNING ...
ExecInsertCompany(table, params) ==
  LET r == [handle |-> params[1], name |-> params[2], description |-> params[3],
            num_employees |-> params[4], logo_url |-> params[5]]
  IN [rows |-> <<r>>, table |-> Append(table, r)]

\* INSERT INTO jobs (title, salary, equity, company_handle)
\* VALUES ($1, $2, $3, $4) RETURNING ... ; id is assigned by the store
ExecInsertJob(table, serial, params) ==
  LET r == [id |-> Num(serial), title |-> params[1], salary |-> params[2],
            equity |-> params[3], company_handle |-> params[4]]
  IN [rows |-> <<r>>, table |-> Append(table, r)]

\* rows[0] of a result set
Row0(rows) == IF rows = <<>> THEN Undefined ELSE rows[1]

\* text ILIKE pattern, on the strings of the model: pattern is %sub%, the
\* match ignores case
ILike(text, pattern) ==
  \/ pattern = "%%"
  \/ <<text, pattern>> \in {<<"Acme", "%ac%">>, <<"Dev", "%dev%">>,
                            <<"Acme", "%Acme%">>, <<"Dev", "%Dev%">>}

\* rank of a string in the collation ORDER BY uses
Collate(x) ==
  CASE x = "Acme" -> 1 [] x = "Bolt" -> 2 [] x = "Dev" -> 3 [] x = "Ops" -> 4
    [] OTHER -> 0

\* the conditions of a WHERE clause: WHERE c1 AND c2 ..., three lexemes each
WhereConds(where) ==
  [j \in 1..(Len(where) \div 4) |->
     [col |-> where[4 * j - 2].s, op |-> where[4 * j - 1].s, arg |-> where[4 * j]]]

\* the placeholders a lexeme sequence refers to
Placeholders(text) == {text[i].n : i \in {j \in DOMAIN text : text[j].tok = "ph"}}

CondHolds(r, c, params) ==
  LET lhs == r[c.col]
      rhs == IF c.arg.tok = "ph" THEN params[c.arg.n] ELSE Num(c.arg.n)
  IN CASE c.op = ">=" -> lhs.t = "number" /\ rhs.t = "number" /\ lhs.n >= rhs.n
       [] c.op = "<=" -> lhs.t = "number" /\ rhs.t = "number" /\ lhs.n <= rhs.n
       [] c.op = ">" -> lhs.t = "number" /\ rhs.t = "number" /\ lhs.n > rhs.n
       [] c.op = "ILIKE" -> lhs.t = "string" /\ ILike(lhs.s, TemplateStr(rhs))
       [] OTHER -> FALSE

\* the orders in which ORDER BY <orderCol> may return rows: every
\* arrangement sorted by the column, rows with equal keys in any order
Sorted(rows, orderCol) ==
  LET n == Len(rows)
      perms == {p \in [1..n -> 1..n] : \A i, j \in 1..n : i # j => p[i] # p[j]}
      ok(p) == \A i \in 1..n : \A j \in 1..n :
                 i < j => Collate(rows[p[i]][orderCol].s) <= Collate(rows[p[j]][orderCol].s)
  IN {[i \in 1..n |-> rows[p[i]]] : p \in {q \in perms : ok(q)}}

\* SELECT ... FROM <table> [WHERE ...] ORDER BY <orderCol>: the statement is
\* rejected unless its placeholders are exactly $1..$Len(params)
ExecSelectWhere(table, where, params, orderCol) ==
  IF Placeholders(where) # DOMAIN params
    THEN [error |-> TRUE, rowsets |-> {<<>>}]
    ELSE LET conds == WhereConds(where)
             hit(r) == \A j \in DOMAIN conds : CondHolds(r, conds[j], params)
         IN [error |-> FALSE, rowsets |-> Sorted(SelectSeq(table, hit), orderCol)]

(***************************************************************************)
(* Outcome of a repository call: what it returns or throws, the tables and *)
(* serial after it, and the statements it executed, in order.              *)
(***************************************************************************)
Outcome(r, cs, js, nid, qs) ==
  [ret |-> r, companies |-> cs, jobs |-> js, nextId |-> nid, queries |-> qs]

Return(v) == [threw |-> "", value |-> v]

\* `return;` and falling off the end of a function
ReturnNothing == Return(Undefined)

(***************************************************************************)
(* models/company.js                                                       *)
(***************************************************************************)
CompanyJsToSql ==
  <<[k |-> "numEmployees", v |-> Str("num_employees")],
    [k |-> "logoUrl", v |-> Str("logo_url")]>>

\* a duplicate check that never finds a row
CompanyDuplicateCheck_Never(cs, handle) == FALSE

\* first statement of Company.create: the duplicate check
CompanyDuplicateCheck(cs, handle) ==
  Row0(ExecSelectBy(cs, "handle", <<handle>>)) # Undefined

CompanyInsertParams(data) ==
  <<data.handle, data.name, data.description, data.numEmployees, data.logoUrl>>

CompanyCreate(cs, js, nid, data) ==
  LET q1 == Query("SELECT handle FROM companies WHERE handle = $1", <<>>,
                  <<data.handle>>)
      q2 == Query("INSERT INTO companies", <<>>, CompanyInsertParams(data))
      ins == ExecInsertCompany(cs, CompanyInsertParams(data))
  IN IF CompanyDuplicateCheck(cs, data.handle)
       THEN Outcome(Threw("BadRequestError"), cs, js, nid, <<q1>>)
       ELSE Outcome(Return(CompanyOut(Row0(ins.rows))), ins.table, js, nid,
                    <<q1, q2>>)

CompanyGet(cs, js, nid, handle) ==
  LET q1 == Query("SELECT FROM companies WHERE handle = $1", <<>>, <<handle>>)
      q2 == Query("SELECT FROM jobs WHERE company_handle = $1 ORDER BY id", <<>>,
                  <<handle>>)
      company == Row0(ExecSelectBy(cs, "handle", <<handle>>))
      jobRows == ExecSelectBy(js, "company_handle", <<handle>>)
      out == CompanyOut(company)
  IN IF company = Undefined
       THEN Outcome(Threw("NotFoundError"), cs, js, nid, <<q1>>)
       ELSE Outcome(Return([handle |-> out.handle, name |-> out.name,
                            description |-> out.description,
                            numEmployees |-> out.numEmployees,
                            logoUrl |-> out.logoUrl,
                            jobs |-> [i \in DOMAIN jobRows |->
                                        [id |-> jobRows[i].id,
                                         title |-> jobRows[i].title,
                                         salary |-> jobRows[i].salary,
                                         equity |-> jobRows[i].equity]]]),
                    cs, js, nid, <<q1, q2>>)

\* Company.update binding the handle to $n instead of $(n+1)
CompanyUpdate_KeyAtN(cs, js, nid, handle, data) ==
  LET built == sqlForPartialUpdate(data, CompanyJsToSql)
      handleVarIdx == Len(built.values)
      params == built.values \o <<handle>>
      q == Query("UPDATE companies", built.setCols \o <<Kw("WHERE"),
                 Ident("handle"), Op("="), Ph(handleVarIdx)>>, params)
      upd == ExecUpdate(cs, CompanyCols, "handle", built.setCols, handleVarIdx,
                        params)
  IN IF built.threw # "" THEN Outcome(built, cs, js, nid, <<>>)
     ELSE IF upd.error THEN Outcome(Threw("DatabaseError"), cs, js, nid, <<q>>)
     ELSE IF Row0(upd.rows) = Undefined
       THEN Outcome(Threw("NotFoundError"), upd.table, js, nid, <<q>>)
       ELSE Outcome(Return(CompanyOut(Row0(upd.rows))), upd.table, js, nid, <<q>>)

CompanyUpdate(cs, js, nid, handle, data) ==
  LET built == sqlForPartialUpdate(data, CompanyJsToSql)
      handleVarIdx == Len(built.values) + 1
      params == built.values \o <<handle>>
      q == Query("UPDATE companies", built.setCols \o <<Kw("WHERE"),
                 Ident("handle"), Op("="), Ph(handleVarIdx)>>, params)
      upd == ExecUpdate(cs, CompanyCols, "handle", built.setCols, handleVarIdx,
                        params)
  IN IF built.threw # "" THEN Outcome(built, cs, js, nid, <<>>)
     ELSE IF upd.error THEN Outcome(Threw("DatabaseError"), cs, js, nid, <<q>>)
     ELSE IF Row0(upd.rows) = Undefined
       THEN Outcome(Threw("NotFoundError"), upd.table, js, nid, <<q>>)
       ELSE Outcome(Return(CompanyOut(Row0(upd.rows))), upd.table, js, nid, <<q>>)

\* Company.remove without the check of the deleted row
CompanyRemove_NoThrow(cs, js, nid, handle) ==
  LET q == Query("DELETE FROM companies WHERE handle = $1", <<>>, <<handle>>)
      del == ExecDelete(cs, "handle", <<handle>>)
  IN Outcome(ReturnNothing, del.table, js, nid, <<q>>)

CompanyRemove(cs, js, nid, handle) ==
  LET q == Query("DELETE FROM companies WHERE handle = $1", <<>>, <<handle>>)
      del == ExecDelete(cs, "handle", <<handle>>)
  IN IF Row0(del.rows) = Undefined
       THEN Outcome(Threw("NotFoundError"), del.table, js, nid, <<q>>)
       ELSE Outcome(ReturnNothing, del.table, js, nid, <<q>>)

\* one step of the WHERE builders: push the value, then push the condition
\* that refers to it by the new length of the value array
PushCond(acc, present, col, op, value) ==
  IF present
    THEN LET vals == Append(acc.queryValArr, value)
         IN [queryValArr |-> vals,
             whereExpArr |-> Append(acc.whereExpArr,
                                    <<Ident(col), Op(op), Ph(Len(vals))>>)]
    ELSE acc

\* " WHERE " + whereExpArr.join(" AND "), when there is a condition
WhereClause(whereExpArr) ==
  IF Len(whereExpArr) > 0 THEN <<Kw("WHERE")>> \o Join(whereExpArr, Kw("AND"))
  ELSE <<>>

\* the validation rejecting equal bounds as well
CompanyFiltersInvalid_Gte(minEmployees, maxEmployees) ==
  \/ JsGt(minEmployees, maxEmployees)
  \/ minEmployees = maxEmployees /\ ~IsNaN(minEmployees)
  \/ JsLt(minEmployees, Num(0))
  \/ JsLt(maxEmployees, Num(0))

\* the validation at the head of Company.findAll
CompanyFiltersInvalid(minEmployees, maxEmployees) ==
  \/ JsGt(minEmployees, maxEmployees)
  \/ JsLt(minEmployees, Num(0))
  \/ JsLt(maxEmployees, Num(0))

\* CompanyWhere testing the bounds for truthiness, so that 0 counts as absent
CompanyWhere_FalsyBounds(filters) ==
  LET minEmployees == GetProp(filters, "minEmployees")
      maxEmployees == GetProp(filters, "maxEmployees")
      name == GetProp(filters, "name")
      a0 == [queryValArr |-> <<>>, whereExpArr |-> <<>>]
      a1 == PushCond(a0, Truthy(minEmployees), "num_employees", ">=",
                     minEmployees)
      a2 == PushCond(a1, Truthy(maxEmployees), "num_employees", "<=",
                     maxEmployees)
      a3 == PushCond(a2, Truthy(name), "name", "ILIKE",
                     Str("%" \o TemplateStr(name) \o "%"))
  IN [where |-> WhereClause(a3.whereExpArr), queryValArr |-> a3.queryValArr]

\* the WHERE clause and value array Company.findAll builds
CompanyWhere(filters) ==
  LET minEmployees == GetProp(filters, "minEmployees")
      maxEmployees == GetProp(filters, "maxEmployees")
      name == GetProp(filters, "name")
      a0 == [queryValArr |-> <<>>, whereExpArr |-> <<>>]
      a1 == PushCond(a0, minEmployees # Undefined, "num_employees", ">=",
                     minEmployees)
      a2 == PushCond(a1, maxEmployees # Undefined, "num_employees", "<=",
                     maxEmployees)
      a3 == PushCond(a2, Truthy(name), "name", "ILIKE",
                     Str("%" \o TemplateStr(name) \o "%"))
  IN [where |-> WhereClause(a3.whereExpArr), queryValArr |-> a3.queryValArr]

\* the outcomes of Company.findAll, one per order the store may return
CompanyFindAll(cs, js, nid, filters) ==
  LET built == CompanyWhere(filters)
      q == Query("SELECT FROM companies ORDER BY name", built.where,
                 built.queryValArr)
      sel == ExecSelectWhere(cs, built.where, built.queryValArr, "name")
  IN IF CompanyFiltersInvalid(GetProp(filters, "minEmployees"),
                              GetProp(filters, "maxEmployees"))
       THEN {Outcome(Threw("BadRequestError"), cs, js, nid, <<>>)}
     ELSE IF sel.error
       THEN {Outcome(Threw("DatabaseError"), cs, js, nid, <<q>>)}
     ELSE {Outcome(Return([i \in DOMAIN rows |-> CompanyOut(rows[i])]),
                   cs, js, nid, <<q>>) : rows \in sel.rowsets}

(***************************************************************************)
(* models/job.js                                                           *)
(***************************************************************************)
JobJsToSql == <<>>

JobCreate(cs, js, nid, data) ==
  LET params == <<data.title, data.salary, data.equity, data.companyHandle>>
      q == Query("INSERT INTO jobs", <<>>, params)
      ins == ExecInsertJob(js, nid, params)
  IN Outcome(Return(JobOut(Row0(ins.rows))), cs, ins.table, nid + 1, <<q>>)

\* JobWhere testing hasEquity for truthiness instead of === true
JobWhere_TruthyEquity(filters) ==
  LET minSalary == GetProp(filters, "minSalary")
      hasEquity == GetProp(filters, "hasEquity")
      title == GetProp(filters, "title")
      a0 == [queryValArr |-> <<>>, whereExpArr |-> <<>>]
      a1 == PushCond(a0, minSalary # Undefined, "salary", ">=", minSalary)
      a2 == IF Truthy(hasEquity)
              THEN [a1 EXCEPT !.whereExpArr =
                      Append(@, <<Ident("equity"), Op(">"), Lit(0)>>)]
              ELSE a1
      a3 == PushCond(a2, title # Undefined, "title", "ILIKE",
                     Str("%" \o TemplateStr(title) \o "%"))
  IN [where |-> WhereClause(a3.whereExpArr), queryValArr |-> a3.queryValArr]

\* the WHERE clause and value array Job.findAll builds
JobWhere(filters) ==
  LET minSalary == GetProp(filters, "minSalary")
      hasEquity == GetProp(filters, "hasEquity")
      title == GetProp(filters, "title")
      a0 == [queryValArr |-> <<>>, whereExpArr |-> <<>>]
      a1 == PushCond(a0, minSalary # Undefined, "salary", ">=", minSalary)
      a2 == IF hasEquity = Bool(TRUE)
              THEN [a1 EXCEPT !.whereExpArr =
                      Append(@, <<Ident("equity"), Op(">"), Lit(0)>>)]
              ELSE a1
      a3 == PushCond(a2, title # Undefined, "title", "ILIKE",
                     Str("%" \o TemplateStr(title) \o "%"))
  IN [where |-> WhereClause(a3.whereExpArr), queryValArr |-> a3.queryValArr]

\* jobs LEFT JOIN companies AS c ON c.handle = jobs.company_handle
JobWithCompanyName(cs, r) ==
  LET c == Row0(ExecSelectBy(cs, "handle", <<r.company_handle>>))
  IN [id |-> r.id, title |-> r.title, salary |-> r.salary, equity |-> r.equity,
      companyHandle |-> r.company_handle,
      companyName |-> IF c = Undefined THEN Null ELSE c.name]

JobFindAll(cs, js, nid, filters) ==
  LET built == JobWhere(filters)
      q == Query("SELECT FROM jobs LEFT JOIN companies ORDER BY title",
                 built.where, built.queryValArr)
      sel == ExecSelectWhere(js, built.where, built.queryValArr, "title")
  IN IF sel.error
       THEN {Outcome(Threw("DatabaseError"), cs, js, nid, <<q>>)}
       ELSE {Outcome(Return([i \in DOMAIN rows |-> JobWithCompanyName(cs, rows[i])]),
                     cs, js, nid, <<q>>) : rows \in sel.rowsets}

JobGet(cs, js, nid, id) ==
  LET q1 == Query("SELECT FROM jobs WHERE id = $1", <<>>, <<id>>)
      job == Row0(ExecSelectBy(js, "id", <<id>>))
      q2 == Query("SELECT FROM companies WHERE handle = $1", <<>>,
                  <<job.company_handle>>)
      c == Row0(ExecSelectBy(cs, "handle", <<job.company_handle>>))
  IN IF job = Undefined
       THEN Outcome(Threw("NotFoundError"), cs, js, nid, <<q1>>)
       ELSE Outcome(Return([id |-> job.id, title |-> job.title,
                            salary |-> job.salary, equity |-> job.equity,
                            company |-> IF c = Undefined THEN Undefined
                                        ELSE CompanyOut(c)]),
                    cs, js, nid, <<q1, q2>>)

JobUpdate(cs, js, nid, id, data) ==
  LET built == sqlForPartialUpdate(data, JobJsToSql)
      idVarIdx == Len(built.values) + 1
      params == built.values \o <<id>>
      q == Query("UPDATE jobs", built.setCols \o <<Kw("WHERE"), Ident("id"),
                 Op("="), Ph(idVarIdx)>>, params)
      upd == ExecUpdate(js, JobCols, "id", built.setCols, idVarIdx, params)
  IN IF built.threw # "" THEN Outcome(built, cs, js, nid, <<>>)
     ELSE IF upd.error THEN Outcome(Threw("DatabaseError"), cs, js, nid, <<q>>)
     ELSE IF Row0(upd.rows) = Undefined
       THEN Outcome(Threw("NotFoundError"), cs, upd.table, nid, <<q>>)
       ELSE Outcome(Return(JobOut(Row0(upd.rows))), cs, upd.table, nid, <<q>>)

JobRemove(cs, js, nid, id) ==
  LET q == Query("DELETE FROM jobs WHERE id = $1", <<>>, <<id>>)
      del == ExecDelete(js, "id", <<id>>)
  IN IF Row0(del.rows) = Undefined
       THEN Outcome(Threw("NotFoundError"), cs, del.table, nid, <<q>>)
       ELSE Outcome(ReturnNothing, cs, del.table, nid, <<q>>)

(***************************************************************************)
(* Inputs the calls are drawn from.                                        *)
(***************************************************************************)
\* the objects with at most n of the given entries, keys distinct; the
\* sequence is the insertion order
Objects(entries, n) ==
  UNION {{obj \in [1..m -> entries] :
            \A i, j \in 1..m : i # j => obj[i].k # obj[j].k} : m \in 0..n}

\* inputs of the pure builder: ordinary field names, array-index keys and
\* an inherited property name; a mapping may hold an empty column name
SqlKeys == {"name", "numEmployees", "0", "1", "toString"}

SqlVals(k) == IF k = "name" THEN {Str("Acme"), Null} ELSE {Num(7)}

SqlPayloads ==
  Objects(UNION {{[k |-> k, v |-> v] : v \in SqlVals(k)} : k \in SqlKeys}, MaxKeys)

SqlMapVals(k) ==
  IF k = "numEmployees" THEN {Str("num_employees"), Str("")} ELSE {Str("col_0")}

SqlMappings ==
  Objects(UNION {{[k |-> k, v |-> v] : v \in SqlMapVals(k)} :
                   k \in {"numEmployees", "0"}}, 1)

Handles == {Str("acme"), Str("bolt")}

CompanyNames == {Str("Acme"), Str("Bolt")}

Headcounts == {Num(0), Num(50)}

CompanyData ==
  [handle : Handles, name : CompanyNames, description : {Str("d")},
   numEmployees : Headcounts, logoUrl : {Null}]

CompanyFieldVals(k) == IF k = "name" THEN CompanyNames ELSE Headcounts

CompanyPayloads ==
  Objects(UNION {{[k |-> k, v |-> v] : v \in CompanyFieldVals(k)} :
                   k \in {"name", "numEmployees"}}, 2)

JobData ==
  [title : {Str("Dev"), Str("Ops")}, salary : {Num(100), Num(200)},
   equity : {Num(0)}, companyHandle : {Str("acme")}]

JobFieldVals(k) == IF k = "title" THEN {Str("Dev"), Str("Ops")}
                   ELSE {Num(100), Num(200)}

JobPayloads ==
  Objects(UNION {{[k |-> k, v |-> v] : v \in JobFieldVals(k)} :
                   k \in {"title", "salary"}}, 2)

JobIds == {Num(i) : i \in 1..MaxJobs}

\* a filters object holding the criteria that are not undefined
Filters(k1, v1, k2, v2, k3, v3) ==
  SelectSeq(<<[k |-> k1, v |-> v1], [k |-> k2, v |-> v2], [k |-> k3, v |-> v3]>>,
            LAMBDA e : e.v # Undefined)

EmployeeBounds == {Undefined} \cup {Num(i) : i \in -1..2}

CompanyFilters ==
  {Filters("minEmployees", mn, "maxEmployees", mx, "name", nm) :
     mn \in EmployeeBounds, mx \in EmployeeBounds,
     nm \in {Undefined, Str(""), Str("ac")}}

JobFilters ==
  {Filters("minSalary", ms, "hasEquity", he, "title", ti) :
     ms \in {Undefined, Num(0), Num(150)},
     he \in {Undefined, Bool(TRUE), Bool(FALSE), Str("true")},
     ti \in {Undefined, Str(""), Str("dev")}}

(***************************************************************************)
(* State and actions.  The caller makes one call at a time: call is the    *)
(* call that has settled and not yet been taken by the caller (Idle when   *)
(* there is none), ret its result, pre the tables as they were when the    *)
(* call was made, queries the statements the call executed.  lastRemoved   *)
(* names the call the caller took last when that call was a remove that    *)
(* returned.                                                               *)
(***************************************************************************)
Idle == [op |-> "idle"]

\* the callers of the interleaved specification and their position in
\* Company.create: "idle" outside a call, "insert" between the two awaits
Procs == {1, 2}

ProcIdle(op, data, r) == [pc |-> "idle", op |-> op, data |-> data, ret |-> r]

ProcInsert(data) ==
  [pc |-> "insert", op |-> "Company.create", data |-> data, ret |-> ReturnNothing]

NoRemove == [op |-> "none", key |-> Undefined]

Snapshot == [companies |-> companies, jobs |-> jobs]

Init ==
  /\ companies = <<>>
  /\ jobs = <<>>
  /\ nextId = 1
  /\ call = Idle
  /\ ret = ReturnNothing
  /\ pre = [companies |-> <<>>, jobs |-> <<>>]
  /\ queries = <<>>
  /\ lastRemoved = NoRemove
  /\ procs = [p \in Procs |-> ProcIdle("none", Undefined, ReturnNothing)]

\* a call made and run to completion with outcome out
Completes(c, out) ==
  /\ call = Idle
  /\ call' = c
  /\ ret' = out.ret
  /\ companies' = out.companies
  /\ jobs' = out.jobs
  /\ nextId' = out.nextId
  /\ queries' = out.queries
  /\ pre' = Snapshot
  /\ UNCHANGED <<lastRemoved, procs>>

\* the caller takes the result of the settled call and is free to call again
Settle ==
  /\ call # Idle
  /\ call' = Idle
  /\ ret' = ReturnNothing
  /\ queries' = <<>>
  /\ pre' = Snapshot
  /\ lastRemoved' = IF call.op \in {"Company.remove", "Job.remove"} /\ ret.threw = ""
                      THEN [op |-> call.op, key |-> call.key]
                      ELSE NoRemove
  /\ UNCHANGED <<companies, jobs, nextId, procs>>

CompanyCreateOp ==
  \E data \in CompanyData :
    Completes([op |-> "Company.create", data |-> data],
              CompanyCreate(companies, jobs, nextId, data))

CompanyGetOp ==
  \E handle \in Handles :
    Completes([op |-> "Company.get", key |-> handle],
              CompanyGet(companies, jobs, nextId, handle))

CompanyUpdateOp ==
  \E handle \in Handles, data \in CompanyPayloads :
    Completes([op |-> "Company.update", key |-> handle, data |-> data],
              CompanyUpdate(companies, jobs, nextId, handle, data))

CompanyRemoveOp ==
  \E handle \in Handles :
    Completes([op |-> "Company.remove", key |-> handle],
              CompanyRemove(companies, jobs, nextId, handle))

JobCreateOp ==
  /\ nextId <= MaxJobs
  /\ \E data \in JobData :
       Completes([op |-> "Job.create", data |-> data],
                 JobCreate(companies, jobs, nextId, data))

JobGetOp ==
  \E id \in JobIds :
    Completes([op |-> "Job.get", key |-> id],
              JobGet(companies, jobs, nextId, id))

JobUpdateOp ==
  \E id \in JobIds, data \in JobPayloads :
    Completes([op |-> "Job.update", key |-> id, data |-> data],
              JobUpdate(companies, jobs, nextId, id, data))

JobRemoveOp ==
  \E id \in JobIds :
    Completes([op |-> "Job.remove", key |-> id],
              JobRemove(companies, jobs, nextId, id))

\* the repositories, one call at a time
Next ==
  \/ CompanyCreateOp
  \/ CompanyGetOp
  \/ CompanyUpdateOp
  \/ CompanyRemoveOp
  \/ JobCreateOp
  \/ JobGetOp
  \/ JobUpdateOp
  \/ JobRemoveOp
  \/ Settle

Spec == Init /\ [][Next]_vars

(***************************************************************************)
(* The pure builder applied to drawn inputs.                               *)
(***************************************************************************)
SqlForPartialUpdateOp ==
  \E dataToUpdate \in SqlPayloads, jsToSql \in SqlMappings :
    /\ call' = [op |-> "sqlForPartialUpdate", dataToUpdate |-> dataToUpdate,
                jsToSql |-> jsToSql]
    /\ ret' = sqlForPartialUpdate(dataToUpdate, jsToSql)
    /\ UNCHANGED <<companies, jobs, nextId, pre, queries, lastRemoved, procs>>

NextSql == SqlForPartialUpdateOp

SpecSql == Init /\ [][NextSql]_vars

(***************************************************************************)
(* findAll over a populated store.                                         *)
(***************************************************************************)
SampleCompanies ==
  <<[handle |-> Str("bolt"), name |-> Str("Bolt"), description |-> Str("d"),
     num_employees |-> Num(0), logo_url |-> Null],
    [handle |-> Str("acme"), name |-> Str("Acme"), description |-> Str("d"),
     num_employees |-> Num(2), logo_url |-> Null]>>

SampleJobs ==
  <<[id |-> Num(1), title |-> Str("Dev"), salary |-> Num(100), equity |-> Num(0),
     company_handle |-> Str("acme")],
    [id |-> Num(2), title |-> Str("Dev"), salary |-> Num(200), equity |-> Num(1),
     company_handle |-> Str("acme")]>>

InitFilter ==
  /\ companies = SampleCompanies
  /\ jobs = SampleJobs
  /\ nextId = 3
  /\ call = Idle
  /\ ret = ReturnNothing
  /\ pre = [companies |-> SampleCompanies, jobs |-> SampleJobs]
  /\ queries = <<>>
  /\ lastRemoved = NoRemove
  /\ procs = [p \in Procs |-> ProcIdle("none", Undefined, ReturnNothing)]

CompanyFindAllOp ==
  \E filters \in CompanyFilters :
    \E out \in CompanyFindAll(companies, jobs, nextId, filters) :
      Completes([op |-> "Company.findAll", filters |-> filters], out)

JobFindAllOp ==
  \E filters \in JobFilters :
    \E out \in JobFindAll(companies, jobs, nextId, filters) :
      Completes([op |-> "Job.findAll", filters |-> filters], out)

NextFilter == CompanyFindAllOp \/ JobFindAllOp \/ Settle

SpecFilter == InitFilter /\ [][NextFilter]_vars

(***************************************************************************)
(* Company.create called by two callers whose statements interleave.  Each *)
(* await db.query is one step: the statement executes atomically in the    *)
(* store, the calls do not.  Whether the store accepts a second row with a *)
(* handle it already holds is decided by the schema, which the repository  *)
(* code does not fix: both outcomes are allowed.                           *)
(***************************************************************************)
Inserting == {q \in Procs : procs[q].pc = "insert"}

\* a duplicate check that also sees the inserts other callers are about to
\* make, as if check and insert were one atomic sequence
CreateCheck_Serialised(p) ==
  /\ procs[p].pc = "idle"
  /\ Len(companies) + Cardinality(Inserting) < MaxRows
  /\ \E data \in CompanyData :
       procs' = [procs EXCEPT ![p] =
                   IF \/ CompanyDuplicateCheck(companies, data.handle)
                      \/ \E q \in Inserting : procs[q].data.handle = data.handle
                     THEN ProcIdle("Company.create", data, Threw("BadRequestError"))
                     ELSE ProcInsert(data)]
  /\ UNCHANGED <<companies, jobs, nextId, call, ret, pre, queries, lastRemoved>>

\* first await: the duplicate check and the throw that may follow it
CreateCheck(p) ==
  /\ procs[p].pc = "idle"
  /\ Len(companies) + Cardinality(Inserting) < MaxRows
  /\ \E data \in CompanyData :
       procs' = [procs EXCEPT ![p] =
                   IF CompanyDuplicateCheck(companies, data.handle)
                     THEN ProcIdle("Company.create", data, Threw("BadRequestError"))
                     ELSE ProcInsert(data)]
  /\ UNCHANGED <<companies, jobs, nextId, call, ret, pre, queries, lastRemoved>>

\* second await: the insert and the return
CreateInsert(p) ==
  /\ procs[p].pc = "insert"
  /\ LET data == procs[p].data
         ins == ExecInsertCompany(companies, CompanyInsertParams(data))
     IN \E accepted \in IF CompanyDuplicateCheck(companies, data.handle)
                          THEN {TRUE, FALSE} ELSE {TRUE} :
          IF accepted
            THEN /\ companies' = ins.table
                 /\ procs' = [procs EXCEPT ![p] =
                                ProcIdle("Company.create", data,
                                         Return(CompanyOut(Row0(ins.rows))))]
            ELSE /\ companies' = companies
                 /\ procs' = [procs EXCEPT ![p] =
                                ProcIdle("Company.create", data,
                                         Threw("DatabaseError"))]
  /\ UNCHANGED <<jobs, nextId, call, ret, pre, queries, lastRemoved>>

\* Company.remove is a single statement
RemoveCall(p) ==
  /\ procs[p].pc = "idle"
  /\ \E handle \in Handles :
       LET out == CompanyRemove(companies, jobs, nextId, handle)
       IN /\ companies' = out.companies
          /\ procs' = [procs EXCEPT ![p] = ProcIdle("Company.remove", handle, out.ret)]
  /\ UNCHANGED <<jobs, nextId, call, ret, pre, queries, lastRemoved>>

NextRace == \E p \in Procs : CreateCheck(p) \/ CreateInsert(p) \/ RemoveCall(p)

SpecRace == Init /\ [][NextRace]_vars

(***************************************************************************)
(* Properties of sqlForPartialUpdate (SpecSql).                            *)
(***************************************************************************)
SqlCalled == call.op = "sqlForPartialUpdate"

\* the own entry of obj for key k
OwnEntry(obj, k) == CHOOSE e \in SeqToSet(obj) : e.k = k

\* the SET list is n assignments "col"=$ph separated by commas
IsSetList(setCols, n) ==
  /\ Len(setCols) = 4 * n - 1
  /\ \A j \in 1..n :
       /\ setCols[4 * j - 3].tok = "ident"
       /\ setCols[4 * j - 2] = Op("=")
       /\ setCols[4 * j - 1].tok = "ph"
       /\ j < n => setCols[4 * j] = Kw(",")

\* the column the builder emits for key k under mapping M, whatever the
\* position of k
EmittedColumn(M, k) == SetCol(M, k, 0)[1].s

\* the builder's result follows the key order keys of payload P
FollowsOrder(P, M, keys) ==
  /\ ret.threw = ""
  /\ IsSetList(ret.setCols, Len(P))
  /\ Len(ret.values) = Len(P)
  /\ \A i \in 1..Len(P) :
       /\ SetAssignments(ret.setCols)[i].ph = i
       /\ SetAssignments(ret.setCols)[i].col = EmittedColumn(M, keys[i])
       /\ ret.values[i] = OwnEntry(P, keys[i]).v

InsertionOrder(P) == [i \in DOMAIN P |-> P[i].k]

\* C1 as stated: for every non-empty payload the i-th inserted key gets $i
\* and values lists the values in insertion order
C1_InsertionOrder ==
  (SqlCalled /\ call.dataToUpdate # <<>>)
    => FollowsOrder(call.dataToUpdate, call.jsToSql,
                    InsertionOrder(call.dataToUpdate))

\* C1 amended: for every non-empty payload with n keys the result is a SET
\* list of exactly n comma-separated assignments whose placeholders are
\* $1..$n in the payload's property enumeration order (array-index keys
\* ascending, then the other keys in insertion order), values lists the
\* values in that same order, and that order is the insertion order when no
\* key is an array index
C1_EnumerationOrder ==
  (SqlCalled /\ call.dataToUpdate # <<>>)
    => LET P == call.dataToUpdate
           idx == {i \in DOMAIN P : P[i].k \in IndexKeys}
           rest == SelectSeq(InsertionOrder(P), LAMBDA k : k \notin IndexKeys)
       IN /\ \E order \in [DOMAIN P -> OwnKeys(P)] :
               /\ \A i, j \in DOMAIN P : i # j => order[i] # order[j]
               /\ \A i, j \in DOMAIN P :
                    (i < j /\ order[i] \in IndexKeys /\ order[j] \in IndexKeys)
                      => IndexOf(order[i]) < IndexOf(order[j])
               /\ \A i \in DOMAIN P :
                    order[i] \in IndexKeys <=> i <= Cardinality(idx)
               /\ \A i \in DOMAIN rest : order[Cardinality(idx) + i] = rest[i]
               /\ FollowsOrder(P, call.jsToSql, order)
          /\ idx = {} => FollowsOrder(P, call.jsToSql, InsertionOrder(P))

\* a two-key payload whose array-index key was inserted last has been built
C1_Witness ==
  /\ SqlCalled
  /\ Len(call.dataToUpdate) = 2
  /\ call.dataToUpdate[1].k = "name"
  /\ call.dataToUpdate[2].k = "0"
  /\ ret.threw = ""
  /\ ret.values = <<Num(7), call.dataToUpdate[1].v>>

\* C2: the column emitted for key k is M[k] when k is a key of M and k
\* itself when it is not
C2_MappedOrIdentity ==
  (SqlCalled /\ ret.threw = "")
    => LET keys == ObjectKeys(call.dataToUpdate)
           M == call.jsToSql
       IN \A i \in DOMAIN keys :
            SetAssignments(ret.setCols)[i].col =
              IF keys[i] \in OwnKeys(M) THEN OwnEntry(M, keys[i]).v.s ELSE keys[i]

(***************************************************************************)
(* Properties of the repositories, one call at a time (Spec).              *)
(***************************************************************************)
StoreUnchanged == companies = pre.companies /\ jobs = pre.jobs

\* the table a call's key is looked up in, before and after the call
IsCompanyCall == call.op \in {"Company.get", "Company.update", "Company.remove"}

IsJobCall == call.op \in {"Job.get", "Job.update", "Job.remove"}

KeyCol == IF IsCompanyCall THEN "handle" ELSE "id"

TableBefore == IF IsCompanyCall THEN pre.companies ELSE pre.jobs

TableAfter == IF IsCompanyCall THEN companies ELSE jobs

OtherTableUnchanged ==
  IF IsCompanyCall THEN jobs = pre.jobs ELSE companies = pre.companies

HasRow(table, keyCol, key) == \E i \in DOMAIN table : table[i][keyCol] = key

KeyExisted == HasRow(TableBefore, KeyCol, call.key)

\* C3: sqlForPartialUpdate({}, M) throws the validation error for every
\* mapping M, and Company.update(key, {}) and Job.update(key, {}) throw it
\* without executing a statement and without changing the store, whether or
\* not the key has a row
C3_EmptyPayloadRejected ==
  /\ \A M \in SqlMappings \cup {CompanyJsToSql, JobJsToSql} :
       sqlForPartialUpdate(<<>>, M) = Threw("BadRequestError")
  /\ (call.op \in {"Company.update", "Job.update"} /\ call.data = <<>>)
       => /\ ret = Threw("BadRequestError")
          /\ queries = <<>>
          /\ StoreUnchanged

\* Company.update with an empty payload has been called on an existing key
C3_Witness ==
  /\ call.op = "Company.update"
  /\ call.data = <<>>
  /\ KeyExisted
  /\ ret.threw = "BadRequestError"

\* C7: Company.create throws the conflict error exactly when a row with the
\* handle exists when it is called, then executes no insert and leaves the
\* store unchanged; otherwise it appends the row; and no two rows of the
\* store hold the same handle
C7_CreateConflict ==
  /\ call.op = "Company.create"
       => LET existed == HasRow(pre.companies, "handle", call.data.handle)
          IN /\ ret.threw = "BadRequestError" <=> existed
             /\ existed
                  => /\ StoreUnchanged
                     /\ \A i \in DOMAIN queries :
                          queries[i].stmt # "INSERT INTO companies"
             /\ ~existed
                  => /\ ret.threw = ""
                     /\ Len(companies) = Len(pre.companies) + 1
                     /\ CompanyOut(companies[Len(companies)]) = call.data
                     /\ ret.value = call.data
                     /\ jobs = pre.jobs
  /\ \A i, j \in DOMAIN companies :
       companies[i].handle = companies[j].handle => i = j

\* a create for a handle that already has a row has thrown
C7_Witness ==
  /\ call.op = "Company.create"
  /\ HasRow(pre.companies, "handle", call.data.handle)
  /\ ret.threw = "BadRequestError"
  /\ Len(companies) = 2

\* the column a payload key of the call's entity is stored in
ColumnOf(k) == IF k = "numEmployees" THEN "num_employees" ELSE k

\* the camelCase view of a row that update returns
RowOut(r) == IF IsCompanyCall THEN CompanyOut(r) ELSE JobOut(r)

\* C8: update on an existing key with a non-empty payload of mutable fields
\* sets each named field of the row with that key, leaves the row's other
\* fields, the other rows and the other table as they were, returns the row
\* as it is after the update, and binds the key to the last placeholder
\* $(n+1)
C8_UpdateFrame ==
  (call.op \in {"Company.update", "Job.update"} /\ call.data # <<>> /\ KeyExisted)
    => LET n == Len(call.data)
           q == queries[1]
       IN /\ ret.threw = ""
          /\ Len(TableAfter) = Len(TableBefore)
          /\ OtherTableUnchanged
          /\ \A i \in DOMAIN TableBefore :
               IF TableBefore[i][KeyCol] = call.key
                 THEN /\ \A e \in SeqToSet(call.data) :
                           TableAfter[i][ColumnOf(e.k)] = e.v
                      /\ \A c \in DOMAIN TableBefore[i] :
                           c \notin {ColumnOf(e.k) : e \in SeqToSet(call.data)}
                             => TableAfter[i][c] = TableBefore[i][c]
                      /\ ret.value = RowOut(TableAfter[i])
                 ELSE TableAfter[i] = TableBefore[i]
          /\ Len(queries) = 1
          /\ Len(q.params) = n + 1
          /\ q.params[n + 1] = call.key
          /\ \A i \in 1..n : q.params[i] = call.data[i].v
          /\ q.text[Len(q.text)] = Ph(n + 1)
          /\ q.text[Len(q.text) - 2] = Ident(KeyCol)

\* a two-field update of one of two company rows has returned
C8_Witness ==
  /\ call.op = "Company.update"
  /\ Len(call.data) = 2
  /\ Len(pre.companies) = 2
  /\ KeyExisted
  /\ ret.threw = ""
  /\ companies # pre.companies

\* C9: get, update with a non-empty payload and remove on a key without a
\* row throw the not-found error and leave the store unchanged; remove on a
\* key with a row deletes that row only and returns nothing; and a remove of
\* the key the previous call removed throws the not-found error
C9_NotFound ==
  /\ ((IsCompanyCall \/ IsJobCall) /\ ~KeyExisted
        /\ (call.op \in {"Company.update", "Job.update"} => call.data # <<>>))
       => ret = Threw("NotFoundError") /\ StoreUnchanged
  /\ (call.op \in {"Company.remove", "Job.remove"} /\ KeyExisted)
       => /\ ret = ReturnNothing
          /\ TableAfter = SelectSeq(TableBefore, LAMBDA r : r[KeyCol] # call.key)
          /\ Len(TableAfter) = Len(TableBefore) - 1
          /\ OtherTableUnchanged
  /\ (call.op \in {"Company.remove", "Job.remove"}
        /\ lastRemoved = [op |-> call.op, key |-> call.key])
       => ret = Threw("NotFoundError")

\* the key removed by the previous call has been removed again
C9_Witness ==
  /\ call.op = "Company.remove"
  /\ lastRemoved = [op |-> call.op, key |-> call.key]
  /\ Len(pre.companies) = 1
  /\ ret.threw = "NotFoundError"

(***************************************************************************)
(* Properties of the WHERE builders (SpecFilter).                          *)
(***************************************************************************)
\* a criterion is present when the filters object has the key
Present(k) == k \in OwnKeys(call.filters)

Criterion(k) == OwnEntry(call.filters, k).v

\* the text and parameters of the statement findAll executed
FindAllText == queries[1].text

FindAllParams == queries[1].params

\* C4: Company.findAll throws the validation error, before executing any
\* statement, exactly when both bounds are supplied with minEmployees >
\* maxEmployees or a supplied bound is negative; for every other combination
\* of bounds it returns
C4_BoundsValidation ==
  call.op = "Company.findAll"
    => LET bad == \/ /\ Present("minEmployees")
                     /\ Present("maxEmployees")
                     /\ Criterion("minEmployees").n > Criterion("maxEmployees").n
                  \/ Present("minEmployees") /\ Criterion("minEmployees").n < 0
                  \/ Present("maxEmployees") /\ Criterion("maxEmployees").n < 0
       IN /\ bad => (ret = Threw("BadRequestError") /\ queries = <<>>)
          /\ ~bad => (ret.threw = "" /\ Len(queries) = 1)
          /\ StoreUnchanged

\* minEmployees 2 with maxEmployees 1 has been rejected
C4_Witness ==
  /\ call.op = "Company.findAll"
  /\ Present("minEmployees")
  /\ Present("maxEmployees")
  /\ Criterion("minEmployees") = Num(2)
  /\ Criterion("maxEmployees") = Num(1)
  /\ ret.threw = "BadRequestError"

\* the WHERE clause is exactly the conditions expected, in order, their
\* placeholders $1..$k, the j-th bound to the j-th parameter; expected lists
\* [col, op, value] per condition
WhereIs(expected) ==
  LET k == Len(expected)
      conds == WhereConds(FindAllText)
  IN /\ Len(FindAllParams) = k
     /\ Len(FindAllText) = 4 * k
     /\ k = 0 => FindAllText = <<>>
     /\ k > 0 => FindAllText[1] = Kw("WHERE")
     /\ \A j \in 1..k :
          /\ j > 1 => FindAllText[4 * j - 3] = Kw("AND")
          /\ FindAllText[4 * j - 2] = Ident(expected[j].col)
          /\ FindAllText[4 * j - 1] = Op(expected[j].op)
          /\ FindAllText[4 * j] = Ph(j)
          /\ FindAllParams[j] = expected[j].value

CompanyCriteria ==
  <<[key |-> "minEmployees", col |-> "num_employees", op |-> ">="],
    [key |-> "maxEmployees", col |-> "num_employees", op |-> "<="],
    [key |-> "name", col |-> "name", op |-> "ILIKE"]>>

ExpectedCond(c) ==
  [col |-> c.col, op |-> c.op,
   value |-> IF c.op = "ILIKE" THEN Str("%" \o Criterion(c.key).s \o "%")
             ELSE Criterion(c.key)]

ExpectedConds(criteria) ==
  [j \in DOMAIN criteria |-> ExpectedCond(criteria[j])]

\* C5 as stated: one condition per criterion present in the filters
C5_OnePerPresent ==
  (call.op = "Company.findAll" /\ ret.threw = "")
    => WhereIs(ExpectedConds(SelectSeq(CompanyCriteria, LAMBDA c : Present(c.key))))

\* C5 amended: for valid filters the WHERE clause has exactly one condition
\* per bound that is present (0 included) and one for name when name is
\* present and not the empty string, in the order minEmployees,
\* maxEmployees, name; placeholders are $1..$k, the j-th bound to the j-th
\* parameter, the name wrapped as %value%; with no such criterion there is
\* no WHERE clause and no parameter
C5_OnePerEffective ==
  (call.op = "Company.findAll" /\ ret.threw = "")
    => WhereIs(ExpectedConds(SelectSeq(CompanyCriteria,
         LAMBDA c : Present(c.key) /\ (c.key = "name" => Criterion(c.key).s # ""))))

\* a findAll with minEmployees 0, a maxEmployees and a name has returned
C5_Witness ==
  /\ call.op = "Company.findAll"
  /\ ret.threw = ""
  /\ Present("minEmployees") /\ Present("maxEmployees") /\ Present("name")
  /\ Criterion("minEmployees") = Num(0)
  /\ Criterion("name") = Str("ac")
  /\ FindAllParams = <<Num(0), Criterion("maxEmployees"), Str("%ac%")>>

\* C6: Job.findAll appends equity > 0 exactly when hasEquity is true, and
\* that condition takes no parameter; the conditions that take one
\* (minSalary, then title) are numbered $1..$k in that order wherever the
\* equity condition stands, and there are as many parameters as such
\* conditions
C6_EquityTakesNoParameter ==
  call.op = "Job.findAll"
    => LET conds == WhereConds(FindAllText)
           equity == {j \in DOMAIN conds : conds[j].col = "equity"}
           taking == SelectSeq(conds, LAMBDA c : c.arg.tok = "ph")
           wanted == (IF Present("minSalary")
                        THEN <<[col |-> "salary", op |-> ">=",
                                value |-> Criterion("minSalary")]>>
                        ELSE <<>>)
                     \o (IF Present("title")
                           THEN <<[col |-> "title", op |-> "ILIKE",
                                   value |-> Str("%" \o Criterion("title").s \o "%")]>>
                           ELSE <<>>)
           wantEquity == Present("hasEquity") /\ Criterion("hasEquity") = Bool(TRUE)
       IN /\ ret.threw = ""
          /\ Len(FindAllText) = 4 * Len(conds)
          /\ Cardinality(equity) = IF wantEquity THEN 1 ELSE 0
          /\ \A j \in equity :
               /\ conds[j] = [col |-> "equity", op |-> ">", arg |-> Lit(0)]
               /\ j = IF Present("minSalary") THEN 2 ELSE 1
          /\ Len(conds) = Len(taking) + Cardinality(equity)
          /\ Len(taking) = Len(wanted)
          /\ Len(FindAllParams) = Len(wanted)
          /\ \A j \in DOMAIN taking :
               /\ taking[j].col = wanted[j].col
               /\ taking[j].op = wanted[j].op
               /\ taking[j].arg = Ph(j)
               /\ FindAllParams[j] = wanted[j].value

\* a findAll with minSalary, hasEquity true and title has returned
C6_Witness ==
  /\ call.op = "Job.findAll"
  /\ Present("minSalary") /\ Present("hasEquity") /\ Present("title")
  /\ Criterion("hasEquity") = Bool(TRUE)
  /\ Len(WhereConds(FindAllText)) = 3
  /\ Len(FindAllParams) = 2
  /\ ret.threw = ""

(***************************************************************************)
(* Property of interleaved creates (SpecRace).                             *)
(***************************************************************************)
\* C10: the duplicate check of Company.create looks at the rows of the
\* store only: a caller whose check finds no row goes on to the insert
\* statement and a caller whose check finds one throws the conflict error,
\* whether or not another caller stands between its own check and insert
\* for the same handle
C10_CheckThenInsertNotAtomic ==
  [][\A p \in Procs :
       (procs[p].pc = "idle" /\ procs'[p] # procs[p]
          /\ procs'[p].op = "Company.create")
         => LET data == procs'[p].data
            IN /\ companies' = companies
               /\ IF HasRow(companies, "handle", data.handle)
                    THEN procs'[p] = ProcIdle("Company.create", data,
                                              Threw("BadRequestError"))
                    ELSE procs'[p] = ProcInsert(data)]_vars

\* both callers have passed the check for the same handle, which has no
\* row, and stand before the insert statement
C10_Witness ==
  /\ procs[1].pc = "insert"
  /\ procs[2].pc = "insert"
  /\ procs[1].data.handle = procs[2].data.handle
  /\ ~HasRow(companies, "handle", procs[1].data.handle)

====
